---- MODULE Spec2Model ----
(***************************************************************************)
(* Cards API gateway (src/api/main.py, src/api/security.py).               *)
(*                                                                         *)
(* One request travels through the ASGI stack in the order the source      *)
(* builds it: add_cache_headers (http middleware) calls call_next, the     *)
(* app-level dependency api_key_guard runs, then the handler of the first  *)
(* route that matches the path.  An HTTPException becomes a JSON response  *)
(* inside call_next; any other exception leaves call_next as an exception. *)
(*                                                                         *)
(* Text is a sequence of one-character strings, so that startswith,        *)
(* replace and strip are computed as Python computes them.  An optional    *)
(* value (None or a value) is the empty sequence or a one-element sequence.*)
(* The handlers keep no state between requests (the module globals are     *)
(* read-only after import), so a behaviour follows one request.            *)
(***************************************************************************)
EXTENDS Integers, Sequences, FiniteSets, TLC

VARIABLES API_KEY, APITCG_API_KEY, db, pc, request, outcome, calls, response

vars == <<API_KEY, APITCG_API_KEY, db, pc, request, outcome, calls, response>>

\* ------------------------------------------------------------------ bounds

\* Longest query string of a request, in key=value pairs.
MaxParams == 2
\* Longest ids list of a bulk body.
MaxIds == 2
\* Most documents held by one collection of the store.
MaxDocs == 2

\* ------------------------------------------------------------ optional values

None == <<>>

Some(x) == <<x>>

\* ----------------------------------------------------------------- Python str

Whitespace == {" ", "\t"}

\* str.startswith(prefix)
StartsWith(s, prefix) ==
    /\ Len(s) >= Len(prefix)
    /\ SubSeq(s, 1, Len(prefix)) = prefix

\* str.replace(old, new): every non-overlapping occurrence, left to right.
RECURSIVE Replace(_, _, _)
Replace(s, old, new) ==
    IF Len(s) < Len(old) THEN s
    ELSE IF SubSeq(s, 1, Len(old)) = old
         THEN new \o Replace(SubSeq(s, Len(old) + 1, Len(s)), old, new)
         ELSE <<Head(s)>> \o Replace(Tail(s), old, new)

RECURSIVE LStrip(_)
LStrip(s) ==
    IF s # <<>> /\ Head(s) \in Whitespace THEN LStrip(Tail(s)) ELSE s

RECURSIVE RStrip(_)
RStrip(s) ==
    IF s # <<>> /\ s[Len(s)] \in Whitespace
    THEN RStrip(SubSeq(s, 1, Len(s) - 1))
    ELSE s

\* str.strip()
Strip(s) == RStrip(LStrip(s))

\* Python truthiness of an optional string: None and "" are falsy.
Falsy(opt) == opt = None \/ opt[1] = <<>>

Bearer == <<"B", "e", "a", "r", "e", "r", " ">>

\* ------------------------------------------------------------------ outcomes

NoBody == [tag |-> "none"]

\* What a dependency or handler does: returns a body, raises HTTPException,
\* or raises any other exception.
Return(body) == [kind |-> "return", status |-> 200, detail |-> "", body |-> body]

HTTPException(status, detail) ==
    [kind |-> "HTTPException", status |-> status, detail |-> detail, body |-> NoBody]

Raise(exc) == [kind |-> "error", status |-> 0, detail |-> exc, body |-> NoBody]

Pass == [kind |-> "pass", status |-> 0, detail |-> "", body |-> NoBody]

Pending == [kind |-> "pending", status |-> 0, detail |-> "", body |-> NoBody]

\* ---------------------------------------------------------------- AccessGuard

AuthToken(auth) == Strip(Replace(auth, Bearer, <<>>))

api_key_guard(auth) ==
    IF Falsy(API_KEY) THEN Raise("RuntimeError: API_KEY")
    ELSE IF Falsy(auth) \/ ~StartsWith(auth[1], Bearer)
         THEN HTTPException(401, "Token ausente")
    ELSE IF AuthToken(auth[1]) # API_KEY[1]
         THEN HTTPException(403, "Token invalido")
    ELSE Pass

\* --------------------------------------------------------------- GameRegistry

GAME_SRC ==
    [apitcg |-> <<"digimon", "pokemon", "dragon-ball-fusion">>,
     mahou |-> <<"sorcery", "one-piece", "riftbound",
                 "star-wars", "fab", "yugioh",
                 "magic", "gundam", "union-arena">>]

GAME_CONFIG ==
    ("sorcery" :> [collection |-> "sorcery", filter_fn |-> "apply_sorcery_filters"])
    @@ ("one-piece" :> [collection |-> "one-piece", filter_fn |-> "apply_onepiece_filters"])
    @@ ("riftbound" :> [collection |-> "riftbound", filter_fn |-> "apply_riftbound_filters"])
    @@ ("fab" :> [collection |-> "fab", filter_fn |-> "apply_fab_filters"])
    @@ ("yugioh" :> [collection |-> "yugioh", filter_fn |-> "apply_yugioh_filters"])
    @@ ("star-wars" :> [collection |-> "star-wars", filter_fn |-> "apply_swu_filters"])
    @@ ("gundam" :> [collection |-> "gundam", filter_fn |-> "apply_gundam_filters"])
    @@ ("union-arena" :> [collection |-> "union-arena", filter_fn |-> "apply_unionarena_filters"])

InList(x, list) == \E i \in DOMAIN list : list[i] = x

\* has_game with the membership test left out of the comprehension.
has_game_any_source(game) == \E src \in DOMAIN GAME_SRC : GAME_SRC[src] # <<>>

has_game(game) == \E src \in DOMAIN GAME_SRC : InList(game, GAME_SRC[src])

has_game_mahou(game) == InList(game, GAME_SRC.mahou)

\* ------------------------------------------------------------ query parameters
\* request.query_params is a multi-dict: the key=value pairs of the query string
\* in order, keys possibly repeated.

\* query_params.get(key): the last value given for key, or None.
RECURSIVE QueryGet(_, _)
QueryGet(query, key) ==
    IF query = <<>> THEN None
    ELSE IF query[Len(query)][1] = key THEN Some(query[Len(query)][2])
    ELSE QueryGet(SubSeq(query, 1, Len(query) - 1), key)

\* The keys of the multi-dict, each once, in order of first occurrence.
RECURSIVE QueryKeys(_)
QueryKeys(query) ==
    IF query = <<>> THEN <<>>
    ELSE LET before == QueryKeys(SubSeq(query, 1, Len(query) - 1))
             key == query[Len(query)][1]
         IN  IF InList(key, before) THEN before ELSE Append(before, key)

\* dict(request.query_params): one entry per key, holding the key's last value;
\* written as the pairs requests encodes it back into.
ToDict(query) ==
    [i \in DOMAIN QueryKeys(query) |->
        <<QueryKeys(query)[i], QueryGet(query, QueryKeys(query)[i])[1]>>]

\* int() of the decimal strings the requests carry.
ParseInt(s) ==
    CASE s = "-1" -> -1
      [] s = "0" -> 0
      [] s = "1" -> 1
      [] s = "2" -> 2
      [] s = "3" -> 3
      [] s = "25" -> 25

\* An int query parameter with a default (limit: int = 25, page: int = 1).
QueryInt(query, key, default) ==
    IF QueryGet(query, key) = None THEN default
    ELSE ParseInt(QueryGet(query, key)[1])

\* ------------------------------------------------------------- DocumentStore
\* api/mango.py and api/filters.py are not part of the sources at hand; they
\* are modelled from the collaborator interface the specification gives.

\* A translator keeps the parameters it recognises and drops the rest; the
\* predicate it builds is owned by the game's translator.
filter_fn(fn, query) == [translator |-> fn, name |-> QueryGet(query, "name")]

Matches(doc, query) == query.name = None \/ doc.name = query.name[1]

Matching(collection, query) ==
    SelectSeq(db[collection], LAMBDA doc : Matches(doc, query))

contar_docs(collection, query) == Len(Matching(collection, query))

Min(a, b) == IF a <= b THEN a ELSE b

buscar_docs(collection, query, page, limit) ==
    LET found == Matching(collection, query)
        skip == (page - 1) * limit
    IN  IF limit <= 0 \/ skip < 0 THEN <<>>
        ELSE SubSeq(found, skip + 1, Min(skip + limit, Len(found)))

FirstOf(docs) == IF docs = <<>> THEN None ELSE Some(Head(docs))

buscar_por_id(collection, id) ==
    FirstOf(SelectSeq(db[collection], LAMBDA doc : doc.id = id))

buscar_por_nome(collection, name) ==
    FirstOf(SelectSeq(db[collection], LAMBDA doc : doc.name = name))

\* Every result random_doc may give: any document, or None for an empty collection.
random_doc(collection) ==
    IF db[collection] = <<>> THEN {None}
    ELSE {Some(db[collection][i]) : i \in DOMAIN db[collection]}

get_meta == [tag |-> "meta"]

StoreCall(op, collection, args) ==
    [kind |-> "store", op |-> op, target |-> collection, args |-> args]

\* ------------------------------------------------------- ExternalProxyClient

UpstreamOutcomes == {"ok", "ConnectionError", "Timeout", "HTTPError", "JSONDecodeError"}

ProxyCall(game, params) ==
    [kind |-> "proxy", op |-> "requests.get", target |-> game, args |-> params]

\* The JSON document the upstream answers a forwarded query with.
UpstreamJson(game, params) == [tag |-> "apitcg", game |-> game, params |-> params]

\* get_apitcg_cards catching requests.HTTPError only, as get_mtg_cards does.
get_apitcg_cards_http_only(game, query, upstream) ==
    IF Falsy(APITCG_API_KEY)
    THEN [out |-> Raise("RuntimeError: APITCG_API_KEY"), calls |-> <<>>]
    ELSE LET params == ToDict(query)
         IN  [out |-> IF upstream = "ok" THEN Return(UpstreamJson(game, params))
                      ELSE IF upstream = "HTTPError" THEN HTTPException(502, upstream)
                      ELSE Raise(upstream),
              calls |-> <<ProxyCall(game, params)>>]

get_apitcg_cards(game, query, upstream) ==
    IF Falsy(APITCG_API_KEY)
    THEN [out |-> Raise("RuntimeError: APITCG_API_KEY"), calls |-> <<>>]
    ELSE LET params == ToDict(query)
         IN  [out |-> IF upstream = "ok"
                      THEN Return(UpstreamJson(game, params))
                      ELSE HTTPException(502, upstream),
              calls |-> <<ProxyCall(game, params)>>]

\* ------------------------------------------------------- PaginationAssembler

\* Floor division (total // limit) in place of math.ceil.
Ceil_floor(total, limit) ==
    IF limit > 0 THEN total \div limit
    ELSE -(total \div (-limit))

\* math.ceil(total / limit) for total >= 0 and limit # 0.
Ceil(total, limit) ==
    IF limit > 0 THEN (total + limit - 1) \div limit
    ELSE -(total \div (-limit))

paginated_response(data, page, limit, total) ==
    IF limit = 0 THEN Raise("ZeroDivisionError")
    ELSE Return([tag |-> "page", page |-> page, limit |-> limit, total |-> total,
                 totalPages |-> Ceil(total, limit), data |-> data])

\* ----------------------------------------------------------- MagicCardsAdapter
\* api/magic.py is not part of the sources at hand: the adapter answers with a
\* JSON document or raises requests.HTTPError on an upstream HTTP failure.

AdapterOutcomes == {"ok", "HTTPError"}

AdapterCall(args) ==
    [kind |-> "adapter", op |-> "fetch_mtg_cards", target |-> "magic", args |-> args]

fetch_mtg_cards(args) == [tag |-> "scryfall", args |-> args]

\* ------------------------------------------------------------------- handlers
\* Each handler gives [out, calls]: what it returns or raises, and the backend
\* operations it invoked, in order.

root == [out |-> Return(get_meta), calls |-> <<StoreCall("get_meta", "meta", <<>>)>>]

get_mtg_cards(args, adapter) ==
    [out |-> IF adapter = "ok"
             THEN Return(fetch_mtg_cards(args))
             ELSE HTTPException(502, "Falha ao consultar Scryfall"),
     calls |-> <<AdapterCall(args)>>]

\* The parameters FastAPI binds for GET /api/magic/cards.
MtgRouteArgs(query) ==
    [limit |-> QueryInt(query, "limit", 25),
     page |-> QueryInt(query, "page", 1),
     name |-> QueryGet(query, "name"),
     set |-> QueryGet(query, "set"),
     colors |-> QueryGet(query, "colors"),
     rarity |-> QueryGet(query, "rarity"),
     layout |-> QueryGet(query, "layout"),
     cmc |-> QueryGet(query, "cmc"),
     language |-> QueryGet(query, "language"),
     id |-> QueryGet(query, "id")]

\* get_mtg_cards(limit=limit, page=page): the filters keep their None defaults.
MtgDirectArgs(limit, page) ==
    [limit |-> limit, page |-> page, name |-> None, set |-> None, colors |-> None,
     rarity |-> None, layout |-> None, cmc |-> None, language |-> None, id |-> None]

get_cards(game, query, limit, page, upstream, adapter) ==
    IF ~has_game(game)
    THEN [out |-> HTTPException(404, "Jogo nao encontrado"), calls |-> <<>>]
    ELSE IF ~has_game_mahou(game)
    THEN get_apitcg_cards(game, query, upstream)
    ELSE IF game = "magic"
    THEN get_mtg_cards(MtgDirectArgs(limit, page), adapter)
    ELSE IF game \notin DOMAIN GAME_CONFIG
    THEN [out |-> Raise("KeyError"), calls |-> <<>>]
    ELSE LET config == GAME_CONFIG[game]
             filter == filter_fn(config.filter_fn, query)
             total == contar_docs(config.collection, filter)
             data == buscar_docs(config.collection, filter, page, limit)
         IN  [out |-> paginated_response(data, page, limit, total),
              calls |-> <<StoreCall("contar_docs", config.collection, <<filter>>),
                          StoreCall("buscar_docs", config.collection,
                                    <<filter, page, limit>>)>>]

\* The documents of a list of lookups that are truthy, in order.
RECURSIVE Found(_)
Found(results) ==
    IF results = <<>> THEN <<>>
    ELSE IF Head(results) = None THEN Found(Tail(results))
    ELSE <<Head(results)[1]>> \o Found(Tail(results))

IsList(ids) == ids # None /\ ids[1].type = "list"

get_cards_bulk(game, body) ==
    IF ~has_game_mahou(game)
    THEN [out |-> HTTPException(404, "Jogo nao habilitado"), calls |-> <<>>]
    ELSE IF ~IsList(body.ids)
    THEN [out |-> HTTPException(400, "Envie um JSON com lista 'ids'"), calls |-> <<>>]
    ELSE IF game \notin DOMAIN GAME_CONFIG
    THEN [out |-> Raise("KeyError"), calls |-> <<>>]
    ELSE LET collection == GAME_CONFIG[game].collection
             ids == body.ids[1].items
             result == Found([i \in DOMAIN ids |-> buscar_por_id(collection, ids[i])])
         IN  [out |-> Return([tag |-> "bulk", count |-> Len(result), data |-> result]),
              calls |-> [i \in DOMAIN ids |->
                            StoreCall("buscar_por_id", collection, <<ids[i]>>)]]

\* `data` is one of the results random_doc may give.
get_random_card(game, data) ==
    IF ~has_game_mahou(game)
    THEN [out |-> HTTPException(404, "Jogo nao habilitado"), calls |-> <<>>]
    ELSE IF game \notin DOMAIN GAME_CONFIG
    THEN [out |-> Raise("KeyError"), calls |-> <<>>]
    ELSE [out |-> Return([tag |-> "card", data |-> data]),
          calls |-> <<StoreCall("random_doc", GAME_CONFIG[game].collection, <<>>)>>]

get_card_by_id_or_name(game, q) ==
    IF ~has_game(game)
    THEN [out |-> HTTPException(404, "Jogo nao encontrado"), calls |-> <<>>]
    ELSE IF ~has_game_mahou(game)
    THEN [out |-> HTTPException(404, "Jogo nao habilitado"), calls |-> <<>>]
    ELSE IF game \notin DOMAIN GAME_CONFIG
    THEN [out |-> Raise("KeyError"), calls |-> <<>>]
    ELSE LET collection == GAME_CONFIG[game].collection
             by_name == buscar_por_nome(collection, q)
             by_id == buscar_por_id(collection, q)
             first == StoreCall("buscar_por_nome", collection, <<q>>)
             second == StoreCall("buscar_por_id", collection, <<q>>)
         IN  IF by_name # None
             THEN [out |-> Return([tag |-> "card", data |-> by_name]),
                   calls |-> <<first>>]
             ELSE IF by_id = None
             THEN [out |-> HTTPException(404, "Card nao encontrado"),
                   calls |-> <<first, second>>]
             ELSE [out |-> Return([tag |-> "card", data |-> by_id]),
                   calls |-> <<first, second>>]

get_card_by_id(game, card_id) ==
    IF ~has_game(game)
    THEN [out |-> HTTPException(404, "Jogo nao encontrado"), calls |-> <<>>]
    ELSE IF ~has_game_mahou(game)
    THEN [out |-> HTTPException(404, "Jogo nao habilitado"), calls |-> <<>>]
    ELSE IF game \notin DOMAIN GAME_CONFIG
    THEN [out |-> Raise("KeyError"), calls |-> <<>>]
    ELSE LET collection == GAME_CONFIG[game].collection
             card == buscar_por_id(collection, card_id)
             call == StoreCall("buscar_por_id", collection, <<card_id>>)
         IN  IF card = None
             THEN [out |-> HTTPException(404, "Card nao encontrado"), calls |-> <<call>>]
             ELSE [out |-> Return([tag |-> "card", data |-> card]), calls |-> <<call>>]

\* --------------------------------------------------------------------- routes
\* The routes in the order main.py declares them; the first match serves.

ROUTES ==
    <<[method |-> "GET", pattern |-> <<>>, endpoint |-> "root"],
      [method |-> "GET", pattern |-> <<"api", "magic", "cards">>,
       endpoint |-> "get_mtg_cards"],
      [method |-> "GET", pattern |-> <<"api", "{game}", "cards">>,
       endpoint |-> "get_cards"],
      [method |-> "POST", pattern |-> <<"api", "{game}", "cards", "bulk">>,
       endpoint |-> "get_cards_bulk"],
      [method |-> "GET", pattern |-> <<"api", "{game}", "cards", "random">>,
       endpoint |-> "get_random_card"],
      [method |-> "GET", pattern |-> <<"api", "{game}", "cards", "lookup">>,
       endpoint |-> "get_card_by_id_or_name"],
      [method |-> "GET", pattern |-> <<"api", "{game}", "cards", "{card_id}">>,
       endpoint |-> "get_card_by_id"]>>

IsParam(segment) == segment \in {"{game}", "{card_id}"}

RouteMatches(route, req) ==
    /\ route.method = req.method
    /\ Len(route.pattern) = Len(req.path)
    /\ \A i \in DOMAIN route.pattern :
          IsParam(route.pattern[i]) \/ route.pattern[i] = req.path[i]

Endpoint(req) ==
    LET hits == {i \in DOMAIN ROUTES : RouteMatches(ROUTES[i], req)}
    IN  IF hits = {} THEN "not_found"
        ELSE ROUTES[CHOOSE i \in hits : \A j \in hits : i <= j].endpoint

\* The {game} and {card_id} path parameters.
GameOf(req) == req.path[2]

CardIdOf(req) == req.path[4]

\* -------------------------------------------------------------------- stack

CacheControl == <<"Cache-Control", "s-maxage=300, stale-while-revalidate=600">>

\* What call_next(request) hands back to the middleware for an outcome that is
\* not an unhandled exception: the handler's JSON, or the JSON error response
\* the exception handler builds from an HTTPException.
call_next(out) ==
    IF out.kind = "return"
    THEN [status |-> 200, headers |-> {}, body |-> out.body]
    ELSE [status |-> out.status, headers |-> {},
          body |-> [tag |-> "error", detail |-> out.detail]]

\* The plain 500 the server answers with when an exception escapes the stack.
ServerError == [status |-> 500, headers |-> {}, body |-> [tag |-> "server_error"]]

add_cache_headers(out) ==
    IF out.kind = "error" THEN ServerError
    ELSE [call_next(out) EXCEPT !.headers = @ \cup {CacheControl}]

\* ------------------------------------------------------------------- requests

Secret == <<"s", "k">>

\* Authorization header values as the server hands them to the application
\* (surrounding whitespace is already trimmed by the HTTP parser).
AuthHeaders ==
    {None,
     Some(<<"B", "a", "s", "i", "c", " ">> \o Secret),
     Some(<<"B", "e", "a", "r", "e", "r">>),
     Some(Bearer \o <<"x">>),
     Some(Bearer \o Secret),
     Some(Bearer \o <<" ">> \o Secret),
     Some(Bearer \o Bearer \o Secret)}

ReqGames == {"digimon", "magic", "yugioh", "chess"}

CardIds == {"a", "b", "m"}

DocIds == {"a", "b", "c"}

DocNames == {"a", "b"}

QueryPairs ==
    {<<"name", "a">>, <<"limit", "0">>, <<"limit", "2">>, <<"limit", "-1">>,
     <<"page", "2">>}

SeqsUpTo(S, n) == UNION {[1..k -> S] : k \in 0..n}

Queries == SeqsUpTo(QueryPairs, MaxParams)

NoJson == [ids |-> None]

Bodies ==
    {NoJson, [ids |-> Some([type |-> "str", items |-> <<>>])]}
    \cup {[ids |-> Some([type |-> "list", items |-> ids])] :
            ids \in SeqsUpTo(CardIds, MaxIds)}

Req(method, path, auth, query, body) ==
    [method |-> method, path |-> path, auth |-> auth, query |-> query, body |-> body]

Requests ==
    {Req("GET", <<>>, auth, <<>>, NoJson) : auth \in AuthHeaders}
    \cup {Req("GET", <<"api", game, "cards">>, auth, query, NoJson) :
            game \in ReqGames, auth \in AuthHeaders, query \in Queries}
    \cup {Req("POST", <<"api", game, "cards", "bulk">>, auth, <<>>, body) :
            game \in ReqGames, auth \in AuthHeaders, body \in Bodies}
    \cup {Req("GET", <<"api", game, "cards", "random">>, auth, <<>>, NoJson) :
            game \in ReqGames, auth \in AuthHeaders}
    \cup {Req("GET", <<"api", game, "cards", "lookup">>, auth, <<<<"q", q>>>>, NoJson) :
            game \in ReqGames, auth \in AuthHeaders, q \in CardIds}
    \cup {Req("GET", <<"api", game, "cards", id>>, auth, <<>>, NoJson) :
            game \in ReqGames, auth \in AuthHeaders, id \in CardIds}

NoRequest == Req("", <<>>, None, <<>>, NoJson)

NoResponse == [status |-> 0, headers |-> {}, body |-> NoBody]

\* The contents one collection may hold: documents with distinct ids.
Contents ==
    {docs \in SeqsUpTo([id : DocIds, name : DocNames], MaxDocs) :
        \A i, j \in DOMAIN docs : docs[i].id = docs[j].id => i = j}

Collections == {GAME_CONFIG[game].collection : game \in DOMAIN GAME_CONFIG}

\* Every collection holds the same pattern of documents, each document marked
\* with the collection it lives in.
Stores ==
    {[c \in Collections |->
        [i \in DOMAIN docs |->
            [id |-> docs[i].id, name |-> docs[i].name, collection |-> c]]] :
     docs \in Contents}

\* ---------------------------------------------------------------------- Init

Init ==
    /\ API_KEY \in {None, Some(Secret)}
    /\ APITCG_API_KEY \in {None, Some(<<"k">>)}
    /\ db \in Stores
    /\ pc = "idle"
    /\ request = NoRequest
    /\ outcome = Pending
    /\ calls = <<>>
    /\ response = NoResponse

\* ------------------------------------------------------------------- actions

Receive ==
    /\ pc = "idle"
    /\ \E req \in Requests : request' = req
    /\ pc' = "guard"
    /\ UNCHANGED <<API_KEY, APITCG_API_KEY, db, outcome, calls, response>>

ApiKeyGuard ==
    /\ pc = "guard"
    /\ LET verdict == api_key_guard(request.auth)
       IN  IF verdict.kind = "pass"
           THEN pc' = "route" /\ UNCHANGED outcome
           ELSE pc' = "respond" /\ outcome' = verdict
    /\ UNCHANGED <<API_KEY, APITCG_API_KEY, db, request, calls, response>>

Serve(endpoint, result) ==
    /\ pc = "route"
    /\ Endpoint(request) = endpoint
    /\ outcome' = result.out
    /\ calls' = result.calls
    /\ pc' = "respond"
    /\ UNCHANGED <<API_KEY, APITCG_API_KEY, db, request, response>>

Root == Serve("root", root)

GetMtgCards ==
    \E adapter \in AdapterOutcomes :
        Serve("get_mtg_cards", get_mtg_cards(MtgRouteArgs(request.query), adapter))

GetCards ==
    \E upstream \in UpstreamOutcomes, adapter \in AdapterOutcomes :
        Serve("get_cards",
              get_cards(GameOf(request), request.query,
                        QueryInt(request.query, "limit", 25),
                        QueryInt(request.query, "page", 1), upstream, adapter))

GetCardsBulk == Serve("get_cards_bulk", get_cards_bulk(GameOf(request), request.body))

\* What random_doc may hand the handler for this game (None where the handler
\* raises before it asks the store).
RandomChoices(game) ==
    IF game \in DOMAIN GAME_CONFIG THEN random_doc(GAME_CONFIG[game].collection)
    ELSE {None}

GetRandomCard ==
    /\ pc = "route"
    /\ Endpoint(request) = "get_random_card"
    /\ \E data \in RandomChoices(GameOf(request)) :
          Serve("get_random_card", get_random_card(GameOf(request), data))

GetCardByIdOrName ==
    Serve("get_card_by_id_or_name",
          get_card_by_id_or_name(GameOf(request), QueryGet(request.query, "q")[1]))

GetCardById == Serve("get_card_by_id", get_card_by_id(GameOf(request), CardIdOf(request)))

AddCacheHeaders ==
    /\ pc = "respond"
    /\ response' = add_cache_headers(outcome)
    /\ pc' = "sent"
    /\ UNCHANGED <<API_KEY, APITCG_API_KEY, db, request, outcome, calls>>

Next ==
    \/ Receive
    \/ ApiKeyGuard
    \/ Root
    \/ GetMtgCards
    \/ GetCards
    \/ GetCardsBulk
    \/ GetRandomCard
    \/ GetCardByIdOrName
    \/ GetCardById
    \/ AddCacheHeaders

Spec == Init /\ [][Next]_vars

\* --------------------------------------------------------------- properties

Sent == pc = "sent"

\* The request carries exactly "Bearer " followed by the configured secret.
Authentic == ~Falsy(API_KEY) /\ request.auth = Some(Bearer \o API_KEY[1])

Supported(game) == \E src \in DOMAIN GAME_SRC : \E i \in DOMAIN GAME_SRC[src] : GAME_SRC[src][i] = game

Internal(game) == \E i \in DOMAIN GAME_SRC.mahou : GAME_SRC.mahou[i] = game

External(game) == \E i \in DOMAIN GAME_SRC.apitcg : GAME_SRC.apitcg[i] = game

Generic(game) == Internal(game) /\ game # "magic"

GameRoutes ==
    {"get_cards", "get_cards_bulk", "get_random_card", "get_card_by_id_or_name",
     "get_card_by_id"}

\* GET /api/{game}/cards as the client sends it, whichever route serves it.
IsCardsPath ==
    /\ request.method = "GET"
    /\ Len(request.path) = 3
    /\ request.path[1] = "api"
    /\ request.path[3] = "cards"

ReqLimit == QueryInt(request.query, "limit", 25)

ReqPage == QueryInt(request.query, "page", 1)

\* What follows the scheme in a header that starts with "Bearer ".
PresentedToken(auth) == SubSeq(auth[1], Len(Bearer) + 1, Len(auth[1]))

HasBearer(auth) ==
    /\ auth # None
    /\ Len(auth[1]) >= Len(Bearer)
    /\ \A i \in 1..Len(Bearer) : auth[1][i] = Bearer[i]

\* C1: the guard admits a request only if its Authorization header is exactly
\* "Bearer " followed by the configured secret, character for character.
C1_GuardAdmitsOnlyExactToken ==
    pc = "route" => request.auth = Some(Bearer \o API_KEY[1])

\* C2: with API_KEY configured, on every route a request without a Bearer
\* header gets 401 and a request whose token differs from the secret gets 403,
\* in both cases with no backend operation invoked; a request with the correct
\* token is never answered by the guard.
C2_GuardDecidesFirst ==
    (Sent /\ ~Falsy(API_KEY)) =>
        /\ ~HasBearer(request.auth) => response.status = 401 /\ calls = <<>>
        /\ (HasBearer(request.auth) /\ PresentedToken(request.auth) # API_KEY[1])
              => response.status = 403 /\ calls = <<>>
        /\ Authentic => response.status \notin {401, 403}

C4_BulkForEveryInternalGame ==
    (Sent /\ Authentic /\ Endpoint(request) = "get_cards_bulk"
          /\ Internal(GameOf(request)) /\ IsList(request.body.ids))
        => /\ response.status = 200
           /\ response.body.tag = "bulk"
           /\ response.body.count = Len(response.body.data)
           /\ \A i \in DOMAIN response.body.data :
                 \E j \in DOMAIN request.body.ids[1].items :
                     request.body.ids[1].items[j] = response.body.data[i].id

\* C5: whenever GET /api/{g}/cards/{id} returns a card for id, the lookup route
\* asked with q = id returns that same card.
C5_LookupRoundTrip ==
    (Sent /\ Authentic /\ Endpoint(request) = "get_card_by_id_or_name")
        => LET q == QueryGet(request.query, "q")[1]
               by_id == get_card_by_id(GameOf(request), q).out
           IN  by_id.kind = "return"
                  => /\ response.status = 200
                     /\ response.body.data = by_id.body.data

\* C6: GET /api/{game}/cards on a generic internal game with limit <= 0 is
\* answered 400 before the store or the pagination assembler is reached.
C6_NonPositiveLimitRejected ==
    (Sent /\ Authentic /\ IsCardsPath /\ Generic(GameOf(request)) /\ ReqLimit <= 0)
        => response.status = 400 /\ calls = <<>>

\* C7: for a generic internal game, page >= 1 and limit >= 1, the listing is the
\* envelope {page, limit, total, totalPages, data}: page and limit echo the
\* request (defaults 1 and 25), total and data are the store's count and find
\* for the game's collection and predicate, and totalPages is the least integer
\* n with n * limit >= total.
C7_Envelope ==
    (Sent /\ Authentic /\ IsCardsPath /\ Generic(GameOf(request))
          /\ ReqPage >= 1 /\ ReqLimit >= 1)
        => LET config == GAME_CONFIG[GameOf(request)]
               predicate == filter_fn(config.filter_fn, request.query)
               body == response.body
           IN  /\ response.status = 200
               /\ body.tag = "page"
               /\ body.page = ReqPage
               /\ body.limit = ReqLimit
               /\ QueryGet(request.query, "page") = None => body.page = 1
               /\ QueryGet(request.query, "limit") = None => body.limit = 25
               /\ body.total = contar_docs(config.collection, predicate)
               /\ body.data = buscar_docs(config.collection, predicate, ReqPage, ReqLimit)
               /\ body.totalPages * body.limit >= body.total
               /\ (body.totalPages - 1) * body.limit < body.total

\* A listing whose total is not a multiple of the page size: one document, two
\* per page, one page.
C7_Witness ==
    /\ Sent /\ Authentic /\ IsCardsPath /\ Generic(GameOf(request))
    /\ response.status = 200
    /\ response.body.tag = "page"
    /\ response.body.limit = 2
    /\ response.body.total = 1
    /\ response.body.totalPages = 1

\* C8: every response the service sends carries the Cache-Control header.
C8_EveryResponseCached == Sent => CacheControl \in response.headers

\* C9: for GET /api/{game}/cards on an external game, every failure of the proxy
\* call, an absent upstream credential included, is answered 502 and nothing
\* else.
C9_EveryProxyFailureIs502 ==
    (Sent /\ Authentic /\ IsCardsPath /\ External(GameOf(request)))
        => /\ response.status \in {200, 502}
           /\ outcome.kind # "return" => response.status = 502

\* C9 as amended: with the upstream credential configured, the proxy is called
\* once and every failure of the call is answered 502; with the credential
\* absent the proxy is not called and the request ends in an unhandled
\* RuntimeError, answered 500.
C9_ProxyFailures ==
    (Sent /\ Authentic /\ IsCardsPath /\ External(GameOf(request)))
        => IF Falsy(APITCG_API_KEY)
           THEN response.status = 500 /\ calls = <<>>
           ELSE /\ Len(calls) = 1
                /\ response.status \in {200, 502}
                /\ outcome.kind # "return" => response.status = 502

\* An upstream timeout was answered 502.
C9_Witness ==
    /\ Sent /\ Authentic /\ IsCardsPath /\ External(GameOf(request))
    /\ outcome.detail = "Timeout"
    /\ response.status = 502

\* C10: an authenticated GET /api/{game}/cards for a known game is served by
\* one backend kind: an external game by the proxy, with the query parameters
\* forwarded unchanged and the body returned verbatim; "magic" by the adapter,
\* with the request's page, limit and name filter; any other internal game by
\* its own translator and the store, count then find on one collection and
\* predicate.
C10_Dispatch ==
    (Sent /\ Authentic /\ IsCardsPath /\ Supported(GameOf(request)))
        => LET game == GameOf(request)
           IN  /\ External(game) =>
                    /\ \A i \in DOMAIN calls : calls[i].kind = "proxy"
                    /\ \A i \in DOMAIN calls :
                          calls[i].target = game /\ calls[i].args = request.query
                    /\ response.status = 200
                          => response.body = UpstreamJson(game, request.query)
               /\ game = "magic" =>
                    /\ Len(calls) = 1
                    /\ calls[1].kind = "adapter"
                    /\ calls[1].args.limit = ReqLimit
                    /\ calls[1].args.page = ReqPage
                    /\ calls[1].args.name = QueryGet(request.query, "name")
               /\ Generic(game) =>
                    /\ Len(calls) = 2
                    /\ \A i \in DOMAIN calls :
                          /\ calls[i].kind = "store"
                          /\ calls[i].target = GAME_CONFIG[game].collection
                          /\ calls[i].args[1].translator = GAME_CONFIG[game].filter_fn
                    /\ calls[1].op = "contar_docs"
                    /\ calls[2].op = "buscar_docs"
                    /\ calls[1].args[1] = calls[2].args[1]

====
